---- MODULE Spec2Model ----
(***************************************************************************)
(* A model of the todo HTTP service of src/main.go: the four handlers      *)
(* fetchTodos, createTodo, deleteTodo and updateTodo working on one        *)
(* document collection through the mgo driver.                             *)
(*                                                                         *)
(* Spec      runs one request at a time, each handler as one action.       *)
(* ConcSpec  runs NumWorkers requests concurrently; a handler is split at  *)
(*           its single storage call, which the storage executes           *)
(*           atomically.                                                   *)
(***************************************************************************)
EXTENDS Integers, Sequences, FiniteSets, TLC

VARIABLES store, counter, clock, alive, last, reqs

vars == <<store, counter, clock, alive, last, reqs>>

(***************************************************************************)
(* Bounds of the model.                                                    *)
(***************************************************************************)
MaxIds == 2
MaxClock == 2
NumWorkers == 2

(***************************************************************************)
(* Program constants.                                                      *)
(***************************************************************************)
StatusOK == 200
StatusBadRequest == 400
StatusProcessing == 102
ObjectIdHexLen == 24
FirstCounter == 10
ZeroTime == 0

(***************************************************************************)
(* Identifiers.  A bson.ObjectId is modelled by its numeric value; its     *)
(* wire form is the 24 digit lower-case hexadecimal string, modelled as a  *)
(* sequence of one-character strings.                                      *)
(***************************************************************************)
HexChars == <<"0", "1", "2", "3", "4", "5", "6", "7",
              "8", "9", "a", "b", "c", "d", "e", "f">>

RECURSIVE HexDigits(_, _)
HexDigits(n, len) ==
  IF len = 0 THEN <<>>
  ELSE Append(HexDigits(n \div 16, len - 1), HexChars[(n % 16) + 1])

\* ObjectId.Hex(): the lower-case hexadecimal encoding of the identifier
Hex(id) == HexDigits(id, ObjectIdHexLen)

\* value of one hexadecimal digit as hex.DecodeString reads it, -1 when the
\* character is no hexadecimal digit
DigitVal(c) ==
  CASE c = "0" -> 0 [] c = "1" -> 1 [] c = "2" -> 2 [] c = "3" -> 3
    [] c = "4" -> 4 [] c = "5" -> 5 [] c = "6" -> 6 [] c = "7" -> 7
    [] c = "8" -> 8 [] c = "9" -> 9
    [] c \in {"a", "A"} -> 10 [] c \in {"b", "B"} -> 11
    [] c \in {"c", "C"} -> 12 [] c \in {"d", "D"} -> 13
    [] c \in {"e", "E"} -> 14 [] c \in {"f", "F"} -> 15
    [] OTHER -> -1

IsSpace(c) == c \in {" ", "\t", "\n"}

RECURSIVE TrimLeft(_)
TrimLeft(s) ==
  IF s # <<>> /\ IsSpace(Head(s)) THEN TrimLeft(Tail(s)) ELSE s

RECURSIVE TrimRight(_)
TrimRight(s) ==
  IF s # <<>> /\ IsSpace(s[Len(s)])
  THEN TrimRight(SubSeq(s, 1, Len(s) - 1)) ELSE s

\* strings.TrimSpace
TrimSpace(s) == TrimRight(TrimLeft(s))

\* bson.IsObjectIdHex: 24 characters, all of them hexadecimal digits
IsObjectIdHex(s) ==
  /\ Len(s) = ObjectIdHexLen
  /\ \A i \in 1..Len(s) : DigitVal(s[i]) >= 0

RECURSIVE HexValue(_)
HexValue(s) ==
  IF s = <<>> THEN 0
  ELSE 16 * HexValue(SubSeq(s, 1, Len(s) - 1)) + DigitVal(s[Len(s)])

\* bson.ObjectIdHex: the identifier a valid string denotes; a runtime panic
\* on any other string
ObjectIdHex(s) ==
  IF IsObjectIdHex(s) THEN [panic |-> FALSE, id |-> HexValue(s)]
  ELSE [panic |-> TRUE, id |-> 0]

\* bson.NewObjectId: a fresh identifier, taken from the process-wide counter
NewObjectId == counter

\* time.Time.Format("2006-01-02 15:04:05")
FormatTime(t) ==
  IF t = ZeroTime THEN "0001-01-01 00:00:00"
  ELSE "2006-01-02 15:04:0" \o ToString(t)

(***************************************************************************)
(* Inputs.                                                                 *)
(***************************************************************************)
Titles == {"", "milk", "bread"}

\* the outcome of json.Decode on a request body: ok is FALSE when Decode
\* returns an error, and title/completed are the fields of the wire record
\* as Decode left them (zero values, or what was filled before the error)
Bodies == [ok : BOOLEAN, title : Titles, completed : BOOLEAN]

\* the bodies the concurrent requests are drawn from
ConcBodies ==
  {[ok |-> TRUE, title |-> "milk", completed |-> FALSE],
   [ok |-> TRUE, title |-> "bread", completed |-> TRUE],
   [ok |-> TRUE, title |-> "", completed |-> FALSE],
   [ok |-> FALSE, title |-> "", completed |-> FALSE]}

BadHexId == [i \in 1..ObjectIdHexLen |-> IF i = 1 THEN "g" ELSE "0"]
UpperHexId == [i \in 1..ObjectIdHexLen |-> IF i = ObjectIdHexLen THEN "A" ELSE "0"]

\* the {id} path segment of a request
Paths ==
  {UpperHexId, <<" ">> \o Hex(FirstCounter + 1) \o <<" ">>,
   Hex(FirstCounter + MaxIds), BadHexId, <<"x", "y", "z">>}

\* the path segments the concurrent requests are drawn from
ConcPaths ==
  {UpperHexId, <<" ">> \o Hex(FirstCounter + 1) \o <<" ">>, <<"x", "y", "z">>}

(***************************************************************************)
(* Responses written through rnd.JSON.                                     *)
(***************************************************************************)
Response(status, message) ==
  [status |-> status, message |-> message, todo_id |-> <<>>, data |-> <<>>]

\* the wire record of a stored record
Wire(t) ==
  [id |-> Hex(t.id), title |-> t.title, completed |-> t.completed,
   createAt |-> FormatTime(t.createAt)]

(***************************************************************************)
(* The collection.  A collection is the sequence of its documents in scan  *)
(* order.  Every storage call takes `fail`, TRUE when the storage is       *)
(* unreachable or refuses the call.                                        *)
(***************************************************************************)
Ids(c) == {c[i].id : i \in 1..Len(c)}

\* Collection.Find(bson.M{}).All
FindAll(c, fail) ==
  IF fail THEN [err |-> TRUE, todos |-> <<>>] ELSE [err |-> FALSE, todos |-> c]

\* Collection.Insert: refused on a duplicate _id
Insert(c, doc, fail) ==
  IF fail \/ doc.id \in Ids(c) THEN [err |-> TRUE, c |-> c]
  ELSE [err |-> FALSE, c |-> Append(c, doc)]

RECURSIVE RemoveFirst(_, _)
RemoveFirst(c, id) ==
  IF c = <<>> THEN <<>>
  ELSE IF Head(c).id = id THEN Tail(c)
  ELSE <<Head(c)>> \o RemoveFirst(Tail(c), id)

\* Collection.RemoveId: ErrNotFound when no document has the id
RemoveId(c, id, fail) ==
  IF fail \/ id \notin Ids(c) THEN [err |-> TRUE, c |-> c]
  ELSE [err |-> FALSE, c |-> RemoveFirst(c, id)]

\* the document an update document without operators leaves in place of d:
\* the fields of the update document under the _id of d.  createAt is not in
\* the update document, so it reads back as the zero time.
Replacement(d, title, completed) ==
  [id |-> d.id, title |-> title, completed |-> completed, createAt |-> ZeroTime]

UpdateWithoutNotFound(c, id, title, completed, fail) ==
  IF fail THEN [err |-> TRUE, c |-> c]
  ELSE [err |-> FALSE,
        c |-> [i \in 1..Len(c) |->
                 IF c[i].id = id THEN Replacement(c[i], title, completed)
                 ELSE c[i]]]

UpdateWithoutSelector(c, id, title, completed, fail) ==
  IF fail \/ id \notin Ids(c) THEN [err |-> TRUE, c |-> c]
  ELSE [err |-> FALSE,
        c |-> [i \in 1..Len(c) |-> Replacement(c[i], title, completed)]]

\* Collection.Update(bson.M{"_id": id}, bson.M{"title": .., "completed": ..}):
\* ErrNotFound when no document has the id
Update(c, id, title, completed, fail) ==
  IF fail \/ id \notin Ids(c) THEN [err |-> TRUE, c |-> c]
  ELSE [err |-> FALSE,
        c |-> [i \in 1..Len(c) |->
                 IF c[i].id = id THEN Replacement(c[i], title, completed)
                 ELSE c[i]]]

(***************************************************************************)
(* The handlers.  Each is cut at its storage call: XPre is the code before *)
(* the call (next says whether the handler returns, panics or goes on to   *)
(* the call), XPost the code after it.                                     *)
(***************************************************************************)
NoBody == [ok |-> TRUE, title |-> "", completed |-> FALSE]
NoDoc == [id |-> 0, title |-> "", completed |-> FALSE, createAt |-> ZeroTime]

RECURSIVE WireList(_)
WireList(todos) ==
  IF todos = <<>> THEN <<>> ELSE <<Wire(Head(todos))>> \o WireList(Tail(todos))

\* fetchTodos after Find: the error response does not end the handler
FetchPost(res) ==
  (IF res.err THEN <<Response(StatusProcessing, "error fetching todos")>>
   ELSE <<>>)
    \o <<[status |-> StatusOK, message |-> "", todo_id |-> <<>>,
          data |-> WireList(res.todos)]>>

\* createTodo up to the Insert: only a Decode error ends the handler
CreatePre(t) ==
  IF ~t.ok
  THEN [responses |-> <<Response(StatusProcessing, "decode error")>>,
        next |-> "return"]
  ELSE [responses |->
          IF t.title = ""
          THEN <<Response(StatusBadRequest, "title is required")>>
          ELSE <<>>,
        next |-> "storage"]

CreateDocCompletedFromBody(t) ==
  [id |-> NewObjectId, title |-> t.title, completed |-> t.completed,
   createAt |-> clock]

\* the todoModel createTodo builds
CreateDoc(t) ==
  [id |-> NewObjectId, title |-> t.title, completed |-> FALSE,
   createAt |-> clock]

CreatePost(res, tm) ==
  IF res.err
  THEN <<Response(StatusProcessing, "error creating todo")>>
  ELSE <<[status |-> StatusOK, message |-> "todo created successfully",
          todo_id |-> Hex(tm.id), data |-> <<>>]>>

\* deleteTodo up to RemoveId: the body of the handler runs only when the id
\* is not valid, and there bson.ObjectIdHex(id) is evaluated first
DeletePre(path) ==
  LET id == TrimSpace(path) IN
  IF ~IsObjectIdHex(id)
  THEN [responses |-> <<Response(StatusBadRequest, "The id is invalid")>>,
        next |-> IF ObjectIdHex(id).panic THEN "panic" ELSE "storage"]
  ELSE [responses |-> <<>>, next |-> "return"]

DeletePost(res) ==
  IF res.err
  THEN <<Response(StatusProcessing, "error deleting todo")>>
  ELSE <<Response(StatusOK, "todo deleted successfully")>>

\* updateTodo up to Update: only the empty title ends the handler
UpdatePre(path, t) ==
  LET id == TrimSpace(path)
      r1 == IF ~IsObjectIdHex(id)
            THEN <<Response(StatusBadRequest, "The id is invalid")>>
            ELSE <<>>
      r2 == IF ~t.ok
            THEN <<Response(StatusProcessing, "decode error")>>
            ELSE <<>>
  IN
  IF t.title = ""
  THEN [responses |->
          r1 \o r2
            \o <<Response(StatusBadRequest, "the title field is required")>>,
        next |-> "return"]
  ELSE [responses |-> r1 \o r2,
        next |-> IF ObjectIdHex(id).panic THEN "panic" ELSE "storage"]

UpdatePost(res) ==
  IF res.err
  THEN <<Response(StatusProcessing, "failed to update todo")>>
  ELSE <<>>

(***************************************************************************)
(* One request at a time.  last is the request being served: its inputs,   *)
(* the collection before it, the responses its handler wrote and whether   *)
(* the handler panicked.  The server then completes the request (Complete) *)
(* and takes the next one.                                                 *)
(***************************************************************************)
Served(op, path, body, fail, responses, panicked) ==
  [op |-> op, path |-> path, body |-> body, fail |-> fail,
   before |-> store, responses |-> responses, panicked |-> panicked]

NoRequest ==
  [op |-> "none", path |-> <<>>, body |-> NoBody, fail |-> FALSE,
   before |-> <<>>, responses |-> <<>>, panicked |-> FALSE]

Idle ==
  [pc |-> "idle", op |-> "none", path |-> <<>>, body |-> NoBody,
   tm |-> NoDoc, responses |-> <<>>]

Workers == 1..NumWorkers

Init ==
  /\ store = <<>>
  /\ counter = FirstCounter
  /\ clock = 1
  /\ alive = TRUE
  /\ last = NoRequest
  /\ reqs = [w \in Workers |-> Idle]

\* time passes
Tick ==
  /\ alive
  /\ clock < MaxClock
  /\ clock' = clock + 1
  /\ UNCHANGED <<store, counter, alive, last, reqs>>

\* GET /todo/ ; writeOk is FALSE when the last rnd.JSON returns an error,
\* which checkErr turns into log.Fatal
FetchTodos ==
  /\ alive
  /\ last.op = "none"
  /\ \E fail \in BOOLEAN, writeOk \in BOOLEAN :
       LET res == FindAll(store, fail) IN
       /\ last' = Served("list", <<>>, NoBody, fail, FetchPost(res), FALSE)
       /\ alive' = writeOk
  /\ UNCHANGED <<store, counter, clock, reqs>>

\* POST /todo/
CreateTodo ==
  /\ alive
  /\ last.op = "none"
  /\ counter < FirstCounter + MaxIds
  /\ \E t \in Bodies :
       LET pre == CreatePre(t) IN
       IF pre.next = "return"
       THEN /\ last' = Served("create", <<>>, t, FALSE, pre.responses, FALSE)
            /\ UNCHANGED <<store, counter>>
       ELSE \E fail \in BOOLEAN :
              LET tm == CreateDoc(t)
                  res == Insert(store, tm, fail)
              IN
              /\ counter' = counter + 1
              /\ store' = res.c
              /\ last' = Served("create", <<>>, t, fail,
                                pre.responses \o CreatePost(res, tm), FALSE)
  /\ UNCHANGED <<clock, alive, reqs>>

\* DELETE /todo/{id}
DeleteTodo ==
  /\ alive
  /\ last.op = "none"
  /\ \E path \in Paths :
       LET pre == DeletePre(path) IN
       IF pre.next = "storage"
       THEN \E fail \in BOOLEAN :
              LET res == RemoveId(store, ObjectIdHex(TrimSpace(path)).id, fail)
              IN
              /\ store' = res.c
              /\ last' = Served("delete", path, NoBody, fail,
                                pre.responses \o DeletePost(res), FALSE)
       ELSE /\ store' = store
            /\ last' = Served("delete", path, NoBody, FALSE, pre.responses,
                              pre.next = "panic")
  /\ UNCHANGED <<counter, clock, alive, reqs>>

\* PUT /todo/{id}
UpdateTodo ==
  /\ alive
  /\ last.op = "none"
  /\ \E path \in Paths, t \in Bodies :
       LET pre == UpdatePre(path, t) IN
       IF pre.next = "storage"
       THEN \E fail \in BOOLEAN :
              LET res == Update(store, ObjectIdHex(TrimSpace(path)).id,
                                t.title, t.completed, fail)
              IN
              /\ store' = res.c
              /\ last' = Served("update", path, t, fail,
                                pre.responses \o UpdatePost(res), FALSE)
       ELSE /\ store' = store
            /\ last' = Served("update", path, t, FALSE, pre.responses,
                              pre.next = "panic")
  /\ UNCHANGED <<counter, clock, alive, reqs>>

\* the server ends the request: the handler has returned, or its panic was
\* recovered, and the connection is free for the next request
Complete ==
  /\ alive
  /\ last.op # "none"
  /\ last' = NoRequest
  /\ UNCHANGED <<store, counter, clock, alive, reqs>>

Next ==
  Tick \/ FetchTodos \/ CreateTodo \/ DeleteTodo \/ UpdateTodo \/ Complete

Spec == Init /\ [][Next]_vars

(***************************************************************************)
(* Concurrent requests.  The server runs every request on a goroutine of   *)
(* its own; reqs[w] is the request goroutine w is serving.  A handler runs *)
(* up to its storage call (ConcBegin...), the storage executes the call    *)
(* atomically and the handler runs to its end (ConcStorage).  A handler    *)
(* that makes no storage call ends within its first step.                  *)
(***************************************************************************)
AtStorage(op, path, body, tm, responses) ==
  [pc |-> "storage", op |-> op, path |-> path, body |-> body, tm |-> tm,
   responses |-> responses]

ConcBeginFetch(w) ==
  /\ alive
  /\ reqs[w].pc = "idle"
  /\ reqs' = [reqs EXCEPT ![w] = AtStorage("list", <<>>, NoBody, NoDoc, <<>>)]
  /\ UNCHANGED <<store, counter, clock, alive, last>>

ConcBeginCreate(w) ==
  /\ alive
  /\ reqs[w].pc = "idle"
  /\ counter < FirstCounter + MaxIds
  /\ \E t \in ConcBodies :
       LET pre == CreatePre(t) IN
       IF pre.next = "storage"
       THEN /\ reqs' = [reqs EXCEPT ![w] =
                          AtStorage("create", <<>>, t, CreateDoc(t),
                                    pre.responses)]
            /\ counter' = counter + 1
       ELSE UNCHANGED <<reqs, counter>>
  /\ UNCHANGED <<store, clock, alive, last>>

ConcBeginDelete(w) ==
  /\ alive
  /\ reqs[w].pc = "idle"
  /\ \E path \in ConcPaths :
       LET pre == DeletePre(path) IN
       IF pre.next = "storage"
       THEN reqs' = [reqs EXCEPT ![w] =
                       AtStorage("delete", path, NoBody, NoDoc, pre.responses)]
       ELSE UNCHANGED reqs
  /\ UNCHANGED <<store, counter, clock, alive, last>>

ConcBeginUpdate(w) ==
  /\ alive
  /\ reqs[w].pc = "idle"
  /\ \E path \in ConcPaths, t \in ConcBodies :
       LET pre == UpdatePre(path, t) IN
       IF pre.next = "storage"
       THEN reqs' = [reqs EXCEPT ![w] =
                       AtStorage("update", path, t, NoDoc, pre.responses)]
       ELSE UNCHANGED reqs
  /\ UNCHANGED <<store, counter, clock, alive, last>>

\* the storage call of goroutine w and the rest of its handler
ConcStorage(w) ==
  LET r == reqs[w]
      oid == ObjectIdHex(TrimSpace(r.path)).id
  IN
  /\ alive
  /\ r.pc = "storage"
  /\ \E fail \in BOOLEAN, writeOk \in BOOLEAN :
       /\ store' =
            CASE r.op = "create" -> Insert(store, r.tm, fail).c
              [] r.op = "delete" -> RemoveId(store, oid, fail).c
              [] r.op = "update" ->
                   Update(store, oid, r.body.title, r.body.completed, fail).c
              [] OTHER -> store
       /\ alive' = (r.op = "list" => writeOk)
  /\ reqs' = [reqs EXCEPT ![w] = Idle]
  /\ UNCHANGED <<counter, clock, last>>

ConcNext ==
  \E w \in Workers :
    \/ ConcBeginFetch(w)
    \/ ConcBeginCreate(w)
    \/ ConcBeginDelete(w)
    \/ ConcBeginUpdate(w)
    \/ ConcStorage(w)

ConcSpec == Init /\ [][ConcNext]_vars

(***************************************************************************)
(* Vocabulary of the properties.                                           *)
(***************************************************************************)
ValidId(path) == IsObjectIdHex(TrimSpace(path))

\* the identifier a request path addresses
PathId(path) == ObjectIdHex(TrimSpace(path)).id

\* the document of collection c with identifier id
Doc(c, id) == c[CHOOSE i \in 1..Len(c) : c[i].id = id]

\* the handler returned, and the first status it wrote is 400
Returned400(r) ==
  /\ ~r.panicked
  /\ r.responses # <<>>
  /\ r.responses[1].status = StatusBadRequest

LastResponse(r) == r.responses[Len(r.responses)]

TypeOK ==
  /\ Len(store) <= MaxIds
  /\ counter \in FirstCounter..(FirstCounter + MaxIds)
  /\ clock \in 1..MaxClock
  /\ alive \in BOOLEAN
  /\ last.op \in {"none", "list", "create", "delete", "update"}
  /\ \A w \in Workers : reqs[w].pc \in {"idle", "storage"}

(***************************************************************************)
(* C1: a create or an update whose decoded payload has an empty title      *)
(* returns a 400 outcome and leaves the collection as it was.              *)
(***************************************************************************)
C1_EmptyTitleRejected ==
  (last.op \in {"create", "update"} /\ last.body.ok /\ last.body.title = "")
    => (Returned400(last) /\ store = last.before)

(***************************************************************************)
(* C2: an update or a delete whose path id is not a valid identifier       *)
(* returns a 400 outcome and leaves the collection as it was.              *)
(***************************************************************************)
C2_InvalidIdRejected ==
  (last.op \in {"update", "delete"} /\ ~ValidId(last.path))
    => (Returned400(last) /\ store = last.before)

(***************************************************************************)
(* C3: a delete of the id of a stored record removes that record.          *)
(***************************************************************************)
C3_DeleteRemoves ==
  (/\ last.op = "delete"
   /\ ValidId(last.path)
   /\ PathId(last.path) \in Ids(last.before))
    => PathId(last.path) \notin Ids(store)

(***************************************************************************)
(* C4: an update of a stored record with a non-empty title T and a flag C  *)
(* that the storage accepts leaves the record with title T, completed C    *)
(* and the id and createAt it had before.                                  *)
(***************************************************************************)
C4_UpdateKeepsIdAndCreateAt ==
  (/\ last.op = "update"
   /\ last.body.ok
   /\ last.body.title # ""
   /\ ValidId(last.path)
   /\ PathId(last.path) \in Ids(last.before)
   /\ ~last.fail)
    => /\ PathId(last.path) \in Ids(store)
       /\ LET old == Doc(last.before, PathId(last.path))
              new == Doc(store, PathId(last.path))
          IN
          /\ new.title = last.body.title
          /\ new.completed = last.body.completed
          /\ new.id = old.id
          /\ new.createAt = old.createAt

(***************************************************************************)
(* C5: a successful create with a non-empty title T appends exactly one    *)
(* record, with title T, completed = FALSE and an identifier no stored     *)
(* record had, and answers with that identifier; and no two stored         *)
(* records ever share an identifier.                                       *)
(***************************************************************************)
C5_CreateAddsOneFreshRecord ==
  /\ (/\ last.op = "create"
      /\ last.body.title # ""
      /\ last.responses # <<>>
      /\ LastResponse(last).status = StatusOK)
       => /\ Len(store) = Len(last.before) + 1
          /\ SubSeq(store, 1, Len(last.before)) = last.before
          /\ LET d == store[Len(store)] IN
             /\ d.title = last.body.title
             /\ d.completed = FALSE
             /\ d.id \notin Ids(last.before)
             /\ Len(last.responses) = 1
             /\ last.responses[1].todo_id = Hex(d.id)
             /\ ObjectIdHex(last.responses[1].todo_id) =
                  [panic |-> FALSE, id |-> d.id]
  /\ \A i, j \in 1..Len(store) : store[i].id = store[j].id => i = j

\* two creates with the same title have left two records
C5_Witness ==
  /\ last.op = "create"
  /\ last.responses # <<>>
  /\ LastResponse(last).status = StatusOK
  /\ Len(store) = 2
  /\ store[1].title = "milk"
  /\ store[2].title = "milk"
  /\ store[1].id # store[2].id

(***************************************************************************)
(* C6: every stored record has a non-empty title.                          *)
(***************************************************************************)
C6_TitleNeverEmpty == \A i \in 1..Len(store) : store[i].title # ""

(***************************************************************************)
(* C7: no handler panics and the process stays alive.                      *)
(***************************************************************************)
C7_NoCrash == ~last.panicked /\ alive

(***************************************************************************)
(* C8: every request served has written exactly one response.              *)
(***************************************************************************)
C8_ExactlyOneResponse == last.op # "none" => Len(last.responses) = 1

(***************************************************************************)
(* C9, as claimed: an update of a valid id that no stored record has, with *)
(* a non-empty title, leaves the collection as it was and writes no error  *)
(* response, as a successful update does.                                  *)
(***************************************************************************)
C9_MissingIdSilent ==
  (/\ last.op = "update"
   /\ last.body.ok
   /\ last.body.title # ""
   /\ ValidId(last.path)
   /\ PathId(last.path) \notin Ids(last.before)
   /\ ~last.fail)
    => (store = last.before /\ last.responses = <<>>)

(***************************************************************************)
(* C9, amended: an update of a valid id that no stored record has, with a  *)
(* non-empty title, leaves the collection as it was and ends with the      *)
(* "failed to update todo" error response (status 102); an update of a     *)
(* stored id that the storage accepts writes no such response.             *)
(***************************************************************************)
C9_MissingIdReported ==
  /\ (/\ last.op = "update"
      /\ last.body.title # ""
      /\ ValidId(last.path)
      /\ PathId(last.path) \notin Ids(last.before))
       => /\ store = last.before
          /\ ~last.panicked
          /\ last.responses # <<>>
          /\ LastResponse(last) =
               Response(StatusProcessing, "failed to update todo")
  /\ (/\ last.op = "update"
      /\ last.body.title # ""
      /\ ValidId(last.path)
      /\ PathId(last.path) \in Ids(last.before)
      /\ ~last.fail)
       => \A k \in 1..Len(last.responses) :
            last.responses[k].message # "failed to update todo"

\* the storage was reachable, one record is stored and the update addressed
\* another, valid id
C9_Witness ==
  /\ last.op = "update"
  /\ last.body.ok
  /\ last.body.title = "bread"
  /\ ~last.fail
  /\ ValidId(last.path)
  /\ Len(last.before) = 1
  /\ PathId(last.path) \notin Ids(last.before)
  /\ store = last.before

(***************************************************************************)
(* C10: under any interleaving, the step of a request changes only what    *)
(* its operation addresses: a list and the first step of any handler       *)
(* change no record, a create only appends its own record, an update       *)
(* changes at most the record of its id and neither adds nor removes one,  *)
(* a delete removes at most the record of its id and changes no other.     *)
(***************************************************************************)
C10_Step ==
  /\ (\A w \in Workers : reqs'[w] = reqs[w]) => store' = store
  /\ \A w \in Workers :
       reqs'[w] # reqs[w] =>
         LET r == reqs[w] IN
         CASE r.pc = "idle" -> store' = store
           [] r.op = "create" ->
                /\ Len(store') >= Len(store)
                /\ SubSeq(store', 1, Len(store)) = store
                /\ \A j \in (Len(store) + 1)..Len(store') : store'[j] = r.tm
           [] r.op = "update" ->
                /\ Len(store') = Len(store)
                /\ \A i \in 1..Len(store) :
                     /\ store'[i].id = store[i].id
                     /\ store[i].id # PathId(r.path) => store'[i] = store[i]
           [] r.op = "delete" ->
                /\ \A i \in 1..Len(store) :
                     store[i].id # PathId(r.path) =>
                       \E j \in 1..Len(store') : store'[j] = store[i]
                /\ \A j \in 1..Len(store') :
                     \E i \in 1..Len(store) : store[i] = store'[j]
           [] OTHER -> store' = store

\* C10: every step of every interleaving changes only the record its
\* operation addresses
C10_OwnRecordOnly == [][C10_Step]_vars

\* an update has replaced the first of two records and left the second as
\* created, while another update is at its storage call
C10_Witness ==
  /\ Len(store) = 2
  /\ store[1].createAt = ZeroTime
  /\ store[2].createAt # ZeroTime
  /\ \E w \in Workers : reqs[w].pc = "storage" /\ reqs[w].op = "update"

====
